---- MODULE Spec2Model ----
(***************************************************************************)
(* AutoOMR: the evaluation engine of the edge function (calculateScores,   *)
(* generateAnswerComparison, the process-omr and answer-comparison         *)
(* handlers over the key-value store), the API client and the App's       *)
(* evaluation list, and the file-upload component.                         *)
(***************************************************************************)
EXTENDS Integers, Sequences, FiniteSets, TLC

VARIABLES
    \* ---- the scoring engine applied to drawn inputs
    detectedAnswers,   \* the detected-answer set handed to the engine
    answerKey,         \* the answer key handed to the engine
    scoreResult,       \* calculateScores' return value, NoValue before the call
    comparison,        \* generateAnswerComparison's return value, NoValue before
    engineCalls,       \* which of the two functions have returned
    \* ---- the edge function and its key-value store
    kvStore,           \* kv_store: id -> stored value
    now,               \* Date.now()
    lastResponse,      \* the response to the latest request of an API caller
    \* ---- App.tsx and the API client
    isDemoMode,        \* client.ts: isDemoMode
    evaluations,       \* useState([]) evaluations
    appAnswerKeys,     \* useState([]) answerKeys
    inflight,          \* async calls of the App that are awaiting something
    comparisonViews,   \* what apiClient.getAnswerComparison returned, per id
    \* ---- FileUpload
    uploadedFiles,     \* useState<UploadedFile[]>([])
    filesAdded,        \* how many files reader.onload has added: the n-th gets id n
    uploadTimers,      \* the setTimeout callbacks of processFile not yet run
    \* ---- CameraCapture
    isStreaming,       \* useState(false)
    capturedImage,     \* useState<string | null>(null)
    hasPermission,     \* useState<boolean | null>(null)
    streamRef,         \* streamRef.current: a stream's number, 0 for null
    cameraMounted,     \* the component is mounted
    cameraCalls,       \* startCamera calls that are awaiting something
    startCameraCalls,  \* how many times startCamera has been called
    mediaStreams,      \* every stream getUserMedia has returned: "live" or "stopped"
    stopCameraRan,     \* stopCamera has run at least once
    \* ---- AnswerKeyUpload
    keyFile,           \* useState<File | null>(null): None or Some(file)
    parsedData,        \* useState<any>(null): None or Some(parsed key)
    examName,          \* examInfo.examName
    parseCalls,        \* parseExcelFile calls awaiting file.text()
    filesSelected,     \* how many files the file input has handed over
    onUploadCalls      \* the answer keys confirmUpload has passed to onUpload

vars == <<detectedAnswers, answerKey, scoreResult, comparison, engineCalls,
          kvStore, now, lastResponse,
          isDemoMode, evaluations, appAnswerKeys, inflight, comparisonViews,
          uploadedFiles, filesAdded, uploadTimers,
          isStreaming, capturedImage, hasPermission, streamRef, cameraMounted,
          cameraCalls, startCameraCalls, mediaStreams, stopCameraRan,
          keyFile, parsedData, examName, parseCalls, filesSelected, onUploadCalls>>

engineVars == <<detectedAnswers, answerKey, scoreResult, comparison, engineCalls>>
serverVars == <<kvStore, now, lastResponse>>
appVars    == <<isDemoMode, evaluations, appAnswerKeys, inflight, comparisonViews>>
uploadVars == <<uploadedFiles, filesAdded, uploadTimers>>
cameraVars == <<isStreaming, capturedImage, hasPermission, streamRef, cameraMounted,
                cameraCalls, startCameraCalls, mediaStreams, stopCameraRan>>
keyFileVars == <<keyFile, parsedData, examName, parseCalls, filesSelected,
                 onUploadCalls>>
widgetVars == <<cameraVars, keyFileVars>>

-----------------------------------------------------------------------------
(* JavaScript values *)

Null      == "null"
Undefined == "undefined"
NoValue   == "none"

\* useRef<MediaStream | null>(null): streams are numbered from 1, 0 is null
NoStream == 0

\* truthiness of what the engine reads out of an answers object
Truthy(v) == v \notin {Null, Undefined, ""}

\* obj[q]: undefined when the object has no such property
Get(obj, q) == IF q \in DOMAIN obj THEN obj[q] ELSE Undefined

\* const options = ['A', 'B', 'C', 'D']
options == <<"A", "B", "C", "D">>

\* the literal 100 of the three for-loops over the questions
LoopQuestions == 100

-----------------------------------------------------------------------------
(* calculateScores *)

\* a plausible slip: the last range stops one question short
subjectRangesShort ==
    << [subject |-> "Data Analytics",     start |-> 1,  end |-> 20],
       [subject |-> "Machine Learning",   start |-> 21, end |-> 40],
       [subject |-> "Python Programming", start |-> 41, end |-> 60],
       [subject |-> "Statistics",         start |-> 61, end |-> 80],
       [subject |-> "SQL & Databases",    start |-> 81, end |-> 99] >>

subjectRanges ==
    << [subject |-> "Data Analytics",     start |-> 1,  end |-> 20],
       [subject |-> "Machine Learning",   start |-> 21, end |-> 40],
       [subject |-> "Python Programming", start |-> 41, end |-> 60],
       [subject |-> "Statistics",         start |-> 61, end |-> 80],
       [subject |-> "SQL & Databases",    start |-> 81, end |-> 100] >>

\* const subjectScores = { 'Data Analytics': 0, ... }
InitialSubjectScores ==
    [s \in {"Data Analytics", "Machine Learning", "Python Programming",
            "Statistics", "SQL & Databases"} |-> 0]

\* subjectRanges.find(range => q >= range.start && q <= range.end): the
\* ranges that satisfy the predicate, in table order; find returns the first
\* and undefined (here the empty sequence) when there is none
FindSubjectRange(q) ==
    SelectSeq(subjectRanges, LAMBDA range : q >= range.start /\ q <= range.end)

\* one iteration of the for-loop body, on the accumulator acc
ScoreStep(acc, detected, correctAnswers, q) ==
    LET d == Get(detected, q)
        c == Get(correctAnswers, q)
    IN  IF Truthy(d) /\ d = c
        THEN LET found == FindSubjectRange(q)
             IN  [totalScore    |-> acc.totalScore + 1,
                  subjectScores |->
                      IF Len(found) > 0
                      THEN [acc.subjectScores EXCEPT ![Head(found).subject] = @ + 1]
                      ELSE acc.subjectScores]
        ELSE acc

\* for (let q = lo; q <= hi; q++) on the accumulator acc: the iterations in
\* ascending order of q, the range split in two to keep the evaluation shallow
RECURSIVE ScoreLoop(_, _, _, _, _)
ScoreLoop(acc, detected, correctAnswers, lo, hi) ==
    IF lo > hi THEN acc
    ELSE IF lo = hi THEN ScoreStep(acc, detected, correctAnswers, lo)
    ELSE LET mid   == (lo + hi) \div 2
             first == ScoreLoop(acc, detected, correctAnswers, lo, mid)
         IN  IF first.totalScore >= 0   \* the first half is evaluated first
             THEN ScoreLoop(first, detected, correctAnswers, mid + 1, hi)
             ELSE first

calculateScores(detected, correctAnswers) ==
    ScoreLoop([totalScore |-> 0, subjectScores |-> InitialSubjectScores],
              detected, correctAnswers, 1, LoopQuestions)

-----------------------------------------------------------------------------
(* generateAnswerComparison *)

\* a plausible slip: the chain's bounds exclusive where the score's ranges
\* are inclusive
ComparisonSubjectExclusive(q) ==
    IF q < 20 THEN "Data Analytics"
    ELSE IF q < 40 THEN "Machine Learning"
    ELSE IF q < 60 THEN "Python Programming"
    ELSE IF q < 80 THEN "Statistics"
    ELSE "SQL & Databases"

\* the if / else-if chain that names the subject of question q
ComparisonSubject(q) ==
    IF q <= 20 THEN "Data Analytics"
    ELSE IF q <= 40 THEN "Machine Learning"
    ELSE IF q <= 60 THEN "Python Programming"
    ELSE IF q <= 80 THEN "Statistics"
    ELSE "SQL & Databases"

\* detected && detected === correct: a falsy detected is the value of the
\* expression, otherwise the boolean of the comparison
IsCorrectValue(d, c) ==
    IF ~Truthy(d) THEN d
    ELSE IF d = c THEN "true" ELSE "false"

\* a plausible slip: only a missing property counts as undetected
ComparisonStatusNullDetected(d, ic) ==
    IF d # Undefined THEN (IF ic = "true" THEN "correct" ELSE "incorrect")
    ELSE "undetected"

\* status: detected ? (isCorrect ? 'correct' : 'incorrect') : 'undetected'
ComparisonStatus(d, ic) ==
    IF Truthy(d) THEN (IF ic = "true" THEN "correct" ELSE "incorrect")
    ELSE "undetected"

ComparisonEntry(detected, correctAnswers, q) ==
    LET d  == Get(detected, q)
        c  == Get(correctAnswers, q)
        ic == IsCorrectValue(d, c)
    IN  [questionNumber |-> q,
         subject        |-> ComparisonSubject(q),
         detectedAnswer |-> d,
         correctAnswer  |-> c,
         isCorrect      |-> ic,
         status         |-> ComparisonStatus(d, ic)]

\* for (let q = lo; q <= hi; q++) comparison.push(entry of q)
RECURSIVE ComparisonLoop(_, _, _, _, _)
ComparisonLoop(acc, detected, correctAnswers, lo, hi) ==
    IF lo > hi THEN acc
    ELSE IF lo = hi THEN Append(acc, ComparisonEntry(detected, correctAnswers, lo))
    ELSE LET mid   == (lo + hi) \div 2
             first == ComparisonLoop(acc, detected, correctAnswers, lo, mid)
         IN  IF Len(first) >= 0         \* the first half is evaluated first
             THEN ComparisonLoop(first, detected, correctAnswers, mid + 1, hi)
             ELSE first

\* the subjects parameter is never read by the body
generateAnswerComparison(detected, correctAnswers, subjects) ==
    ComparisonLoop(<< >>, detected, correctAnswers, 1, LoopQuestions)

-----------------------------------------------------------------------------
(* Inputs of the engine: answers objects that mention a few questions.  A   *)
(* question an object does not mention reads as undefined.                  *)

\* questions the drawn objects may mention: the first two, the last of the
\* loop, and one question past the loop
ProbeQuestions == {1, 2, 100, 101}

MaxDetected == 2
MaxKeyed    == 2

SparseMaps(values, max) ==
    UNION {[D -> values] : D \in {S \in SUBSET ProbeQuestions : Cardinality(S) <= max}}

\* a detected answer is an option or null (simulateOMRProcessing)
DetectedSets == SparseMaps({"A", "B", "C", Null}, MaxDetected)

\* subjects as AnswerKeyUpload.parseExcelFile attaches them to every parsed key
ClientSubjects ==
    << [name |-> "Data Analytics",     questions |-> "1-20"],
       [name |-> "Machine Learning",   questions |-> "21-40"],
       [name |-> "Python Programming", questions |-> "41-60"],
       [name |-> "Statistics",         questions |-> "61-80"],
       [name |-> "SQL & Databases",    questions |-> "81-100"] >>

\* a subjects list a caller of POST /answer-keys may send instead
OtherSubjects == << [name |-> "Physics", questions |-> "1-2"] >>

\* totalQuestions as the Total Questions input of AnswerKeyUpload leaves it
TotalQuestionsChoices == {1, 2, 100, 101}

AnswerKeys ==
    {k \in [totalQuestions : TotalQuestionsChoices,
            answers        : SparseMaps({"A", "B"}, MaxKeyed),
            subjects       : {ClientSubjects, OtherSubjects}] :
        k.subjects = OtherSubjects => k.totalQuestions = 2}

-----------------------------------------------------------------------------
(* The engine applied to drawn inputs *)

ServerIdle ==
    /\ kvStore = << >>
    /\ now = 0
    /\ lastResponse = << >>

AppIdle ==
    /\ isDemoMode = FALSE
    /\ evaluations = << >>
    /\ appAnswerKeys = << >>
    /\ inflight = {}
    /\ comparisonViews = << >>

UploadIdle ==
    /\ uploadedFiles = << >>
    /\ filesAdded = 0
    /\ uploadTimers = {}

\* CameraCapture as mounted: the useState and useRef initial values
CameraIdle ==
    /\ isStreaming = FALSE
    /\ capturedImage = Null
    /\ hasPermission = Null
    /\ streamRef = NoStream
    /\ cameraMounted = TRUE
    /\ cameraCalls = {}
    /\ startCameraCalls = 0
    /\ mediaStreams = << >>
    /\ stopCameraRan = FALSE

\* AnswerKeyUpload as mounted: the useState initial values
KeyFileIdle ==
    /\ keyFile = << >>
    /\ parsedData = << >>
    /\ examName = ""
    /\ parseCalls = {}
    /\ filesSelected = 0
    /\ onUploadCalls = << >>

WidgetsIdle == CameraIdle /\ KeyFileIdle

EngineInit ==
    /\ detectedAnswers \in DetectedSets
    /\ answerKey \in AnswerKeys
    /\ scoreResult = NoValue
    /\ comparison = NoValue
    /\ engineCalls = {}
    /\ ServerIdle /\ AppIdle /\ UploadIdle /\ WidgetsIdle

\* evaluation = calculateScores(detectedAnswers, answerKey.answers)
Score ==
    /\ "score" \notin engineCalls
    /\ engineCalls' = engineCalls \cup {"score"}
    /\ scoreResult' = calculateScores(detectedAnswers, answerKey.answers)
    /\ UNCHANGED <<detectedAnswers, answerKey, comparison>>
    /\ UNCHANGED <<widgetVars, serverVars, appVars, uploadVars>>

\* answerComparison = generateAnswerComparison(detectedAnswers,
\*                        answerKey.answers, answerKey.subjects), asked for
\* once the sheet has been scored
Compare ==
    /\ "score" \in engineCalls
    /\ "compare" \notin engineCalls
    /\ engineCalls' = engineCalls \cup {"compare"}
    /\ comparison' = generateAnswerComparison(detectedAnswers, answerKey.answers,
                                              answerKey.subjects)
    /\ UNCHANGED <<detectedAnswers, answerKey, scoreResult>>
    /\ UNCHANGED <<widgetVars, serverVars, appVars, uploadVars>>

EngineNext == Score \/ Compare

SpecEngine == EngineInit /\ [][EngineNext]_vars

\* The engine applied to each pair of neighbouring questions q, q + 1 of the
\* loop: the key answers both, the sheet has any of a right mark, a wrong
\* mark and no mark on each.
EachQuestionInit ==
    /\ \E q \in 1..LoopQuestions :
          /\ answerKey = [totalQuestions |-> LoopQuestions,
                          answers        |-> [n \in {q, q + 1} |-> "A"],
                          subjects       |-> ClientSubjects]
          /\ detectedAnswers \in [{q, q + 1} -> {"A", "B", Null}]
    /\ scoreResult = NoValue
    /\ comparison = NoValue
    /\ engineCalls = {}
    /\ ServerIdle /\ AppIdle /\ UploadIdle /\ WidgetsIdle

SpecEachQuestion == EachQuestionInit /\ [][EngineNext]_vars

-----------------------------------------------------------------------------
(* The key-value store.  A value that may be null or absent is a sequence  *)
(* of length 0 or 1.                                                        *)

None    == << >>
Some(v) == <<v>>
IsSome(o) == Len(o) > 0

\* kv.get(id): the stored value or absent
kvGet(store, id) == IF id \in DOMAIN store THEN Some(store[id]) ELSE None

\* kv.set(id, value)
kvSet(store, id, value) ==
    [k \in DOMAIN store \cup {id} |-> IF k = id THEN value ELSE store[k]]

\* kv.getByPrefix(prefix): the stored values whose id starts with the prefix,
\* oldest id first
RECURSIVE SeqOfIds(_)
SeqOfIds(ids) ==
    IF ids = {} THEN << >>
    ELSE LET first == CHOOSE i \in ids : \A j \in ids : i.ts <= j.ts
         IN  <<first>> \o SeqOfIds(ids \ {first})

kvGetByPrefix(store, prefix) ==
    LET ids == SeqOfIds({i \in DOMAIN store : i.prefix = prefix})
    IN  [n \in 1..Len(ids) |-> store[ids[n]]]

-----------------------------------------------------------------------------
(* The edge function's handlers.  A handler maps the request and the store *)
(* to the store it leaves and the response it sends.                        *)

\* `evaluation_${Date.now()}` and `answer_key_${Date.now()}`
EvaluationId(t) == [prefix |-> "evaluation_", ts |-> t]
AnswerKeyId(t)  == [prefix |-> "answer_key_", ts |-> t]

\* simulateOMRProcessing: an option or null for each of the questions 1..100.
\* The outcomes drawn: a sparse detection, every other question undetected.
simulateOMRProcessing(marks) ==
    [q \in 1..LoopQuestions |-> IF q \in DOMAIN marks THEN marks[q] ELSE Null]

ErrorResponse(code) ==
    [status |-> code, success |-> FALSE, id |-> None, evaluation |-> None]

\* app.post('/make-server-f11ea3c3/answer-keys')
AnswerKeysPost(body, store, t, kvFails) ==
    IF body.examName = "" \/ body.setVersion = "" \/ ~IsSome(body.answers)
    THEN [kv |-> store, response |-> ErrorResponse(400)]
    ELSE IF kvFails
    THEN [kv |-> store, response |-> ErrorResponse(500)]
    ELSE LET answerKeyId   == AnswerKeyId(t)
             answerKeyData == [id             |-> answerKeyId,
                               examName       |-> body.examName,
                               setVersion     |-> body.setVersion,
                               totalQuestions |-> body.totalQuestions,
                               answers        |-> body.answers[1],
                               subjects       |-> body.subjects]
         IN  [kv       |-> kvSet(store, answerKeyId, answerKeyData),
              response |-> [status |-> 200, success |-> TRUE,
                            id |-> Some(answerKeyId), evaluation |-> None]]

\* status: 'completed' of evaluationData
EvaluationStatus(evaluation) == "completed"

\* app.post('/make-server-f11ea3c3/process-omr'); marks is what the simulated
\* detection draws, kvFails whether a store call rejects
ProcessOmr(body, store, t, marks, kvFails) ==
    IF body.studentName = "" \/ body.rollNumber = "" \/ body.imageData = ""
    THEN [kv |-> store, response |-> ErrorResponse(400)]
    ELSE
    LET answerKeyFound == IF IsSome(body.answerKeyId)
                          THEN kvGet(store, body.answerKeyId[1]) ELSE None
        \* answerKey.answers of a stored value that has no answers: calculateScores
        \* reads a property of undefined and throws
        throws == kvFails \/ (IsSome(answerKeyFound)
                               /\ "answers" \notin DOMAIN answerKeyFound[1])
    IN  IF throws
        THEN [kv |-> store, response |-> ErrorResponse(500)]
        ELSE
        LET detected   == simulateOMRProcessing(marks)
            evaluation == IF IsSome(answerKeyFound)
                          THEN Some(calculateScores(detected, answerKeyFound[1].answers))
                          ELSE None
            evaluationId   == EvaluationId(t)
            evaluationData == [id              |-> evaluationId,
                               studentName     |-> body.studentName,
                               rollNumber      |-> body.rollNumber,
                               examDate        |-> body.examDate,
                               detectedAnswers |-> detected,
                               answerKeyId     |-> body.answerKeyId,
                               evaluation      |-> evaluation,
                               status          |-> EvaluationStatus(evaluation)]
        IN  [kv       |-> kvSet(store, evaluationId, evaluationData),
             response |-> [status |-> 200, success |-> TRUE,
                           id |-> Some(evaluationId),
                           evaluation |-> Some(evaluationData)]]

\* a plausible slip: when the evaluation's key is gone the comparison is built
\* from a key the store does hold
EvaluationAnswersGetAnyKey(evaluationId, store) ==
    LET evaluation == kvGet(store, evaluationId)
        keys       == {id \in DOMAIN store : id.prefix = "answer_key_"}
    IN  IF ~IsSome(evaluation)
        THEN [status |-> 404, success |-> FALSE, evaluation |-> None,
              answerComparison |-> None]
        ELSE
        LET keyId     == IF "answerKeyId" \in DOMAIN evaluation[1]
                         THEN evaluation[1].answerKeyId ELSE None
            answerKeyFound ==
                IF ~IsSome(keyId) THEN None
                ELSE IF keyId[1] \in DOMAIN store THEN kvGet(store, keyId[1])
                ELSE IF keys # {} THEN Some(store[CHOOSE k \in keys : TRUE])
                ELSE None
        IN  IF IsSome(answerKeyFound) /\ "answers" \notin DOMAIN answerKeyFound[1]
            THEN [status |-> 500, success |-> FALSE, evaluation |-> None,
                  answerComparison |-> None]
            ELSE [status |-> 200, success |-> TRUE, evaluation |-> evaluation,
                  answerComparison |->
                      IF IsSome(answerKeyFound)
                      THEN Some(generateAnswerComparison(
                                    evaluation[1].detectedAnswers,
                                    answerKeyFound[1].answers,
                                    answerKeyFound[1].subjects))
                      ELSE None]

\* app.get('/make-server-f11ea3c3/evaluations/:id/answers')
EvaluationAnswersGet(evaluationId, store) ==
    LET evaluation == kvGet(store, evaluationId)
    IN  IF ~IsSome(evaluation)
        THEN [status |-> 404, success |-> FALSE, evaluation |-> None,
              answerComparison |-> None]
        ELSE
        LET keyId     == IF "answerKeyId" \in DOMAIN evaluation[1]
                         THEN evaluation[1].answerKeyId ELSE None
            answerKeyFound == IF IsSome(keyId) THEN kvGet(store, keyId[1]) ELSE None
        IN  IF IsSome(answerKeyFound) /\ "answers" \notin DOMAIN answerKeyFound[1]
            \* correctAnswers[q] of undefined throws: the catch answers 500
            THEN [status |-> 500, success |-> FALSE, evaluation |-> None,
                  answerComparison |-> None]
            ELSE [status |-> 200, success |-> TRUE, evaluation |-> evaluation,
                  answerComparison |->
                      IF IsSome(answerKeyFound)
                      THEN Some(generateAnswerComparison(
                                    evaluation[1].detectedAnswers,
                                    answerKeyFound[1].answers,
                                    answerKeyFound[1].subjects))
                      ELSE None]

-----------------------------------------------------------------------------
(* App.tsx: the evaluation list and the async functions that write it.     *)
(* An entry of the list keeps the fields the App reads; a field an entry   *)
(* does not have is None.                                                   *)

MaxClock      == 2
MaxFiles      == 1
MaxKeyUploads == 1

\* what is typed into the name and roll number inputs of the n-th file
StudentNames == <<"Asha", "Ravi", "Meera", "Kiran">>
RollNumbers  == <<"DS001", "DS002", "DS003", "DS004">>
ExamDate    == "2024-01-15"
ImageData   == "data:image/png;base64"

\* what simulateOMRProcessing may draw in the system: the sheets of scenario A
\* and scenario B
SimulatedMarks == {(1 :> "A" @@ 2 :> "C"), (1 :> Null @@ 2 :> "B")}

\* the keys AnswerKeyUpload.confirmUpload hands to handleAnswerKeyUpload
UploadableKeys ==
    {[examName |-> "Placement", setVersion |-> "A", totalQuestions |-> 100,
      answers |-> Some(1 :> "A" @@ 2 :> "B"), subjects |-> ClientSubjects]}

\* two outcomes of the mock scores: Math.floor(Math.random() * 30) + 70 for the
\* total and Math.floor(Math.random() * 5) + 15 for each subject
MockOutcomes ==
    {[totalScore |-> 70, subjectScores |-> [s \in DOMAIN InitialSubjectScores |-> 15]],
     [totalScore |-> 99, subjectScores |-> [s \in DOMAIN InitialSubjectScores |-> 19]]}

\* Date.now().toString(), `demo-eval-${Date.now()}`
TempId(t)     == [prefix |-> "", ts |-> t]
DemoEvalId(t) == [prefix |-> "demo-eval-", ts |-> t]

\* mockEvaluations of loadInitialData's catch
mockEvaluations ==
    << [id            |-> [prefix |-> "demo-", ts |-> 1],
        studentName   |-> "John Doe",
        rollNumber    |-> "DS001",
        status        |-> "completed",
        evaluation    |-> None,
        totalScore    |-> Some(85),
        subjectScores |-> Some("Data Analytics" :> 18 @@ "Machine Learning" :> 16
                               @@ "Python Programming" :> 17 @@ "Statistics" :> 17
                               @@ "SQL & Databases" :> 17)] >>

\* { ...evaluation, totalScore: evaluation.evaluation?.totalScore || 0,
\*   subjectScores: evaluation.evaluation?.subjectScores || {} }
WithScores(stored) ==
    [id            |-> stored.id,
     studentName   |-> stored.studentName,
     rollNumber    |-> stored.rollNumber,
     status        |-> stored.status,
     evaluation    |-> stored.evaluation,
     totalScore    |-> IF IsSome(stored.evaluation)
                       THEN Some(stored.evaluation[1].totalScore) ELSE Some(0),
     subjectScores |-> IF IsSome(stored.evaluation)
                       THEN Some(stored.evaluation[1].subjectScores)
                       ELSE Some(<< >>)]

\* tempEvaluation of handleOMRUpload
TempEvaluation(omrData, t) ==
    [id            |-> TempId(t),
     studentName   |-> omrData.studentName,
     rollNumber    |-> omrData.rollNumber,
     status        |-> "processing",
     evaluation    |-> None,
     totalScore    |-> None,
     subjectScores |-> None]

\* mockResults of handleOMRUpload's catch
MockResults(tempId, omrData, score, subjects) ==
    [id            |-> tempId,
     studentName   |-> omrData.studentName,
     rollNumber    |-> omrData.rollNumber,
     status        |-> "completed",
     evaluation    |-> None,
     totalScore    |-> Some(score),
     subjectScores |-> Some(subjects)]

\* prev.map(evaluation => evaluation.id === id ? replacement : evaluation)
ReplaceById(list, id, replacement) ==
    [i \in 1..Len(list) |-> IF list[i].id = id THEN replacement ELSE list[i]]

\* answerKeys.length > 0 ? answerKeys[answerKeys.length - 1].id : null
LatestAnswerKeyId(answerKeys) ==
    IF Len(answerKeys) > 0 THEN Some(answerKeys[Len(answerKeys)].id) ELSE None

LoadCall(step) == [fn |-> "loadInitialData", step |-> step]

\* handleOMRUpload up to its await: the temporary entry is appended and
\* processOMR is called with the latest answer key of the closure
HandleOMRUploadStart(omrData, answerKeys, file) ==
    /\ evaluations' = Append(evaluations, TempEvaluation(omrData, now))
    /\ inflight' = inflight \cup
           {[fn |-> "handleOMRUpload", step |-> "processOMR", file |-> file,
             tempId |-> TempId(now), omrData |-> omrData,
             answerKeyId |-> LatestAnswerKeyId(answerKeys), started |-> now]}

\* loadInitialData, first await: apiClient.getAnswerKeys() settles
LoadAnswerKeysSettle(call) ==
    /\ call \in inflight /\ call.fn = "loadInitialData" /\ call.step = "answerKeys"
    /\ \/ /\ isDemoMode
          /\ appAnswerKeys' = << >>
          /\ inflight' = (inflight \ {call}) \cup {LoadCall("evaluations")}
          /\ UNCHANGED evaluations
       \/ /\ ~isDemoMode
          /\ appAnswerKeys' = kvGetByPrefix(kvStore, "answer_key_")
          /\ inflight' = (inflight \ {call}) \cup {LoadCall("evaluations")}
          /\ UNCHANGED evaluations
       \/ /\ ~isDemoMode    \* the fetch rejects or the response is not ok
          /\ evaluations' = mockEvaluations
          /\ inflight' = inflight \ {call}
          /\ UNCHANGED appAnswerKeys
    /\ UNCHANGED <<isDemoMode, comparisonViews>>
    /\ UNCHANGED <<widgetVars, engineVars, serverVars, uploadVars>>

\* loadInitialData, second await: apiClient.getEvaluations() settles
LoadEvaluationsSettle(call) ==
    /\ call \in inflight /\ call.fn = "loadInitialData" /\ call.step = "evaluations"
    /\ \/ /\ isDemoMode
          /\ evaluations' = << >>
       \/ /\ ~isDemoMode
          /\ LET stored == kvGetByPrefix(kvStore, "evaluation_")
             IN  evaluations' = [i \in 1..Len(stored) |-> WithScores(stored[i])]
       \/ /\ ~isDemoMode    \* the fetch rejects or the response is not ok
          /\ evaluations' = mockEvaluations
    /\ inflight' = inflight \ {call}
    /\ UNCHANGED <<isDemoMode, appAnswerKeys, comparisonViews>>
    /\ UNCHANGED <<widgetVars, engineVars, serverVars, uploadVars>>

\* handleOMRUpload after its await, the response being a success: the entries
\* with the temporary id are replaced and loadInitialData is called
OmrSucceeded(call, responseEvaluation) ==
    /\ evaluations' = ReplaceById(evaluations, call.tempId, WithScores(responseEvaluation))
    /\ inflight' = (inflight \ {call}) \cup {LoadCall("answerKeys")}

\* handleOMRUpload after its await, processOMR having thrown: the catch arms
\* the 2000 ms fallback timer
OmrThrew(call) ==
    /\ inflight' = (inflight \ {call}) \cup
                       {[call EXCEPT !.step = "fallback", !.started = now]}
    /\ UNCHANGED evaluations

\* apiClient.processOMR in demo mode: 1500 ms later the mock response
ProcessOMRDemoSettle(call) ==
    /\ call \in inflight /\ call.fn = "handleOMRUpload" /\ call.step = "processOMR"
    /\ isDemoMode
    /\ now > call.started
    /\ \E mock \in MockOutcomes :
          OmrSucceeded(call,
              [id          |-> DemoEvalId(now),
               studentName |-> call.omrData.studentName,
               rollNumber  |-> call.omrData.rollNumber,
               status      |-> "completed",
               evaluation  |-> Some(mock)])
    /\ UNCHANGED <<isDemoMode, appAnswerKeys, comparisonViews>>
    /\ UNCHANGED <<widgetVars, engineVars, serverVars, uploadVars>>

\* apiClient.processOMR against the backend: the handler runs and its response
\* is a success, or the response is not ok and processOMR throws
ProcessOMRSettle(call) ==
    /\ call \in inflight /\ call.fn = "handleOMRUpload" /\ call.step = "processOMR"
    /\ ~isDemoMode
    /\ \E marks \in SimulatedMarks, kvFails \in BOOLEAN :
          LET body == [studentName |-> call.omrData.studentName,
                       rollNumber  |-> call.omrData.rollNumber,
                       examDate    |-> call.omrData.examDate,
                       imageData   |-> call.omrData.imageData,
                       answerKeyId |-> call.answerKeyId]
              done == ProcessOmr(body, kvStore, now, marks, kvFails)
          IN  /\ kvStore' = done.kv
              /\ IF done.response.status = 200
                 THEN OmrSucceeded(call, done.response.evaluation[1])
                 ELSE OmrThrew(call)
    /\ UNCHANGED <<now, lastResponse>>
    /\ UNCHANGED <<isDemoMode, appAnswerKeys, comparisonViews>>
    /\ UNCHANGED <<widgetVars, engineVars, uploadVars>>

\* apiClient.processOMR against the backend: the fetch itself rejects
ProcessOMRUnreachable(call) ==
    /\ call \in inflight /\ call.fn = "handleOMRUpload" /\ call.step = "processOMR"
    /\ ~isDemoMode
    /\ OmrThrew(call)
    /\ UNCHANGED <<isDemoMode, appAnswerKeys, comparisonViews>>
    /\ UNCHANGED <<widgetVars, engineVars, serverVars, uploadVars>>

\* the setTimeout callback of handleOMRUpload's catch
OmrFallbackTimer(call) ==
    /\ call \in inflight /\ call.fn = "handleOMRUpload" /\ call.step = "fallback"
    /\ now > call.started
    /\ \E mock \in MockOutcomes :
          evaluations' = ReplaceById(evaluations, call.tempId,
                                     MockResults(call.tempId, call.omrData,
                                                 mock.totalScore, mock.subjectScores))
    /\ inflight' = inflight \ {call}
    /\ UNCHANGED <<isDemoMode, appAnswerKeys, comparisonViews>>
    /\ UNCHANGED <<widgetVars, engineVars, serverVars, uploadVars>>

\* the catch of handleAnswerKeyUpload: the key is kept locally under
\* Date.now().toString()
LocalAnswerKey(key, t) ==
    [id             |-> TempId(t),
     examName       |-> key.examName,
     setVersion     |-> key.setVersion,
     totalQuestions |-> key.totalQuestions,
     answers        |-> key.answers[1],
     subjects       |-> key.subjects]

StoredKeyIds == {id \in DOMAIN kvStore : id.prefix = "answer_key_"}

KeyUploadsInFlight == {c \in inflight : c.fn = "handleAnswerKeyUpload"}

\* handleAnswerKeyUpload up to its first await
HandleAnswerKeyUpload(key) ==
    /\ KeyUploadsInFlight = {}
    /\ Cardinality(StoredKeyIds) + Len(appAnswerKeys) < MaxKeyUploads
    /\ inflight' = inflight \cup
           {[fn |-> "handleAnswerKeyUpload", step |-> "uploadAnswerKey",
             answerKey |-> key]}
    /\ UNCHANGED <<isDemoMode, evaluations, appAnswerKeys, comparisonViews>>
    /\ UNCHANGED <<widgetVars, engineVars, serverVars, uploadVars>>

\* handleAnswerKeyUpload, first await: apiClient.uploadAnswerKey() settles
UploadAnswerKeySettle(call) ==
    /\ call \in inflight /\ call.fn = "handleAnswerKeyUpload"
    /\ call.step = "uploadAnswerKey"
    /\ \/ /\ isDemoMode
          /\ inflight' = (inflight \ {call}) \cup {[call EXCEPT !.step = "getAnswerKeys"]}
          /\ UNCHANGED <<kvStore, appAnswerKeys>>
       \/ /\ ~isDemoMode
          /\ \E kvFails \in BOOLEAN :
                LET done == AnswerKeysPost(call.answerKey, kvStore, now, kvFails)
                IN  /\ kvStore' = done.kv
                    /\ IF done.response.status = 200
                       THEN /\ inflight' = (inflight \ {call}) \cup
                                              {[call EXCEPT !.step = "getAnswerKeys"]}
                            /\ UNCHANGED appAnswerKeys
                       ELSE /\ inflight' = inflight \ {call}
                            /\ appAnswerKeys' =
                                  Append(appAnswerKeys, LocalAnswerKey(call.answerKey, now))
    /\ UNCHANGED <<now, lastResponse>>
    /\ UNCHANGED <<isDemoMode, evaluations, comparisonViews>>
    /\ UNCHANGED <<widgetVars, engineVars, uploadVars>>

\* handleAnswerKeyUpload, second await: apiClient.getAnswerKeys() settles
ReloadAnswerKeysSettle(call) ==
    /\ call \in inflight /\ call.fn = "handleAnswerKeyUpload"
    /\ call.step = "getAnswerKeys"
    /\ \/ /\ isDemoMode
          /\ appAnswerKeys' = << >>
       \/ /\ ~isDemoMode
          /\ appAnswerKeys' = kvGetByPrefix(kvStore, "answer_key_")
       \/ /\ ~isDemoMode    \* the fetch rejects or the response is not ok
          /\ appAnswerKeys' = Append(appAnswerKeys, LocalAnswerKey(call.answerKey, now))
    /\ inflight' = inflight \ {call}
    /\ UNCHANGED <<isDemoMode, evaluations, comparisonViews>>
    /\ UNCHANGED <<widgetVars, engineVars, serverVars, uploadVars>>

-----------------------------------------------------------------------------
(* FileUpload *)

\* Math.random() * 20, two of its outcomes
ProgressIncrements == {0, 19}

\* a plausible slip: the increment applied without the cap
Uncapped(a, b) == a

Min(a, b) == IF a <= b THEN a ELSE b

FileIds == {uploadedFiles[i].id : i \in 1..Len(uploadedFiles)}

FileOf(id) == uploadedFiles[CHOOSE i \in 1..Len(uploadedFiles) : uploadedFiles[i].id = id]

\* prev.map(f => f.id === id ? { ...f, ...updates } : f)
MapFile(files, id, updates) ==
    [i \in 1..Len(files) |->
        IF files[i].id = id
        THEN [k \in DOMAIN files[i] |->
                 IF k \in DOMAIN updates THEN updates[k] ELSE files[i][k]]
        ELSE files[i]]

\* reader.onload of handleFiles: a new file, pending; its id, Date.now()
\* followed by random digits, is an id no other file has had
HandleFiles ==
    /\ filesAdded < MaxFiles
    /\ filesAdded' = filesAdded + 1
    /\ uploadedFiles' = Append(uploadedFiles,
           [id |-> filesAdded + 1, studentName |-> "", rollNumber |-> "",
            examDate |-> ExamDate, status |-> "pending", progress |-> 0])
    /\ UNCHANGED uploadTimers
    /\ UNCHANGED <<widgetVars, engineVars, serverVars, appVars>>

\* removeFile; the button is disabled while the file is processing
RemoveFile(id) ==
    /\ id \in FileIds
    /\ FileOf(id).status # "processing"
    /\ uploadedFiles' = SelectSeq(uploadedFiles, LAMBDA f : f.id # id)
    /\ UNCHANGED <<filesAdded, uploadTimers>>
    /\ UNCHANGED <<widgetVars, engineVars, serverVars, appVars>>

\* updateFileInfo; the inputs are disabled unless the file is pending
UpdateFileInfo(id) ==
    /\ id \in FileIds
    /\ FileOf(id).status = "pending"
    /\ \/ uploadedFiles' = MapFile(uploadedFiles, id,
                                   [studentName |-> StudentNames[id]])
       \/ uploadedFiles' = MapFile(uploadedFiles, id,
                                   [rollNumber |-> RollNumbers[id]])
    /\ uploadedFiles' # uploadedFiles
    /\ UNCHANGED <<filesAdded, uploadTimers>>
    /\ UNCHANGED <<widgetVars, engineVars, serverVars, appVars>>

\* processFile without its setUploadedFiles to 'processing': the file keeps its
\* status until the timeout
ProcessFileEffectNoStatus(files, timers, id) ==
    [files  |-> MapFile(files, id, [progress |-> 0]),
     timers |-> timers \cup {[id |-> id, file |-> FileOf(id),
                              answerKeys |-> appAnswerKeys, started |-> now]}]

\* what one call of processFile does to the files and the timers: the file is
\* set processing with progress 0, and the timeout keeps the file and the
\* onUpload (with the App's answerKeys) of the render that made the call
ProcessFileEffect(files, timers, id) ==
    [files  |-> MapFile(files, id, [status |-> "processing", progress |-> 0]),
     timers |-> timers \cup {[id |-> id, file |-> FileOf(id),
                              answerKeys |-> appAnswerKeys, started |-> now]}]

FileReady(f) == f.status = "pending" /\ f.studentName # "" /\ f.rollNumber # ""

\* processFile from the Process button, shown for a pending file and enabled
\* once name and roll number are filled
ProcessFile(id) ==
    /\ id \in FileIds
    /\ FileReady(FileOf(id))
    /\ LET done == ProcessFileEffect(uploadedFiles, uploadTimers, id)
       IN  /\ uploadedFiles' = done.files
           /\ uploadTimers' = done.timers
    /\ UNCHANGED filesAdded
    /\ UNCHANGED <<widgetVars, engineVars, serverVars, appVars>>

RECURSIVE ProcessEach(_, _, _)
ProcessEach(files, timers, ids) ==
    IF ids = {} THEN [files |-> files, timers |-> timers]
    ELSE LET id   == CHOOSE i \in ids : \A j \in ids : i <= j
             done == ProcessFileEffect(files, timers, id)
         IN  ProcessEach(done.files, done.timers, ids \ {id})

\* processBatch: processFile for every pending file that is filled in
ProcessBatch ==
    LET pendingFiles == {id \in FileIds : FileReady(FileOf(id))}
        done == ProcessEach(uploadedFiles, uploadTimers, pendingFiles)
    IN  /\ pendingFiles # {}
        /\ uploadedFiles' = done.files
        /\ uploadTimers' = done.timers
        /\ UNCHANGED filesAdded
        /\ UNCHANGED <<widgetVars, engineVars, serverVars, appVars>>

\* the setInterval callback of processFile, until the timeout clears it
ProgressTick(timer) ==
    /\ timer \in uploadTimers
    /\ timer.id \in FileIds
    /\ FileOf(timer.id).status = "processing"
    /\ \E inc \in ProgressIncrements :
          uploadedFiles' = MapFile(uploadedFiles, timer.id,
              [progress |-> Min(FileOf(timer.id).progress + inc, 90)])
    /\ uploadedFiles' # uploadedFiles
    /\ UNCHANGED <<filesAdded, uploadTimers>>
    /\ UNCHANGED <<widgetVars, engineVars, serverVars, appVars>>

\* the setTimeout callback of processFile, 3 seconds on: the file is set
\* completed and onUpload, the App's handleOMRUpload, is called
ProcessFileTimeout(timer) ==
    /\ timer \in uploadTimers
    /\ now > timer.started
    /\ uploadTimers' = uploadTimers \ {timer}
    /\ UNCHANGED filesAdded
    /\ uploadedFiles' = MapFile(uploadedFiles, timer.id,
                                [status |-> "completed", progress |-> 100])
    /\ HandleOMRUploadStart([studentName |-> timer.file.studentName,
                             rollNumber  |-> timer.file.rollNumber,
                             examDate    |-> timer.file.examDate,
                             imageData   |-> ImageData],
                            timer.answerKeys, timer.id)
    /\ UNCHANGED <<isDemoMode, appAnswerKeys, comparisonViews>>
    /\ UNCHANGED <<widgetVars, engineVars, serverVars>>

-----------------------------------------------------------------------------
(* The system: the App mounted over an empty store *)

\* the clock moves on
Tick ==
    /\ now < MaxClock
    /\ now' = now + 1
    /\ UNCHANGED <<kvStore, lastResponse>>
    /\ UNCHANGED <<widgetVars, engineVars, appVars, uploadVars>>

EngineIdle ==
    /\ detectedAnswers = << >>
    /\ answerKey = << >>
    /\ scoreResult = NoValue
    /\ comparison = NoValue
    /\ engineCalls = {}

\* useEffect(() => { loadInitialData(); }, []) has run
Init ==
    /\ EngineIdle
    /\ ServerIdle
    /\ isDemoMode \in BOOLEAN
    /\ evaluations = << >>
    /\ appAnswerKeys = << >>
    /\ inflight = {LoadCall("answerKeys")}
    /\ comparisonViews = << >>
    /\ UploadIdle
    /\ WidgetsIdle

Next ==
    \/ Tick
    \/ \E call \in inflight : LoadAnswerKeysSettle(call)
    \/ \E call \in inflight : LoadEvaluationsSettle(call)
    \/ \E key \in UploadableKeys : HandleAnswerKeyUpload(key)
    \/ \E call \in inflight : UploadAnswerKeySettle(call)
    \/ \E call \in inflight : ReloadAnswerKeysSettle(call)
    \/ HandleFiles
    \/ \E id \in FileIds : RemoveFile(id)
    \/ \E id \in FileIds : UpdateFileInfo(id)
    \/ \E id \in FileIds : ProcessFile(id)
    \/ ProcessBatch
    \/ \E timer \in uploadTimers : ProgressTick(timer)
    \/ \E timer \in uploadTimers : ProcessFileTimeout(timer)
    \/ \E call \in inflight : ProcessOMRDemoSettle(call)
    \/ \E call \in inflight : ProcessOMRSettle(call)
    \/ \E call \in inflight : ProcessOMRUnreachable(call)
    \/ \E call \in inflight : OmrFallbackTimer(call)

Spec == Init /\ [][Next]_vars

\* the system with time passing and every armed 3000 ms timeout of processFile
\* firing
SpecTimersFire ==
    /\ Init /\ [][Next]_vars
    /\ WF_vars(Tick)
    /\ \A id \in 1..MaxFiles :
          WF_vars(\E timer \in uploadTimers : timer.id = id /\ ProcessFileTimeout(timer))

-----------------------------------------------------------------------------
(* A batch: the App loaded over an empty store, and several files added to  *)
(* FileUpload with name and roll number typed in, all pending               *)

BatchSize == 2

BatchInit ==
    /\ EngineIdle
    /\ ServerIdle
    /\ isDemoMode \in BOOLEAN
    /\ evaluations = << >>
    /\ appAnswerKeys = << >>
    /\ inflight = {}
    /\ comparisonViews = << >>
    /\ uploadedFiles = [n \in 1..BatchSize |->
                           [id |-> n, studentName |-> StudentNames[n],
                            rollNumber |-> RollNumbers[n], examDate |-> ExamDate,
                            status |-> "pending", progress |-> 0]]
    /\ filesAdded = BatchSize
    /\ uploadTimers = {}
    /\ WidgetsIdle

BatchNext ==
    \/ Tick
    \/ ProcessBatch
    \/ \E id \in FileIds : ProcessFile(id)
    \/ \E timer \in uploadTimers : ProgressTick(timer)
    \/ \E timer \in uploadTimers : ProcessFileTimeout(timer)
    \/ \E call \in inflight : ProcessOMRDemoSettle(call)
    \/ \E call \in inflight : ProcessOMRSettle(call)
    \/ \E call \in inflight : ProcessOMRUnreachable(call)
    \/ \E call \in inflight : OmrFallbackTimer(call)
    \/ \E call \in inflight : LoadAnswerKeysSettle(call)
    \/ \E call \in inflight : LoadEvaluationsSettle(call)

SpecBatch == BatchInit /\ [][BatchNext]_vars

-----------------------------------------------------------------------------
(* The answer comparison of a listed evaluation, asked for over a store    *)
(* that no longer changes                                                   *)

\* the mock comparison of apiClient.getAnswerComparison: for each question a
\* random correct answer and a random detected answer or null.  Two of the
\* outcomes: every draw the same pair.
MockDraws == {[correctAnswer |-> "A", detectedAnswer |-> "A"],
              [correctAnswer |-> "A", detectedAnswer |-> Null]}

\* subjects[Math.floor((questionNum - 1) / 20)]
MockSubject(questionNum) ==
    <<"Data Analytics", "Machine Learning", "Python Programming", "Statistics",
      "SQL & Databases">>[((questionNum - 1) \div 20) + 1]

MockComparison(draw) ==
    [i \in 1..LoopQuestions |->
        LET isCorrect == draw.detectedAnswer = draw.correctAnswer
        IN  [questionNumber |-> i,
             subject        |-> MockSubject(i),
             detectedAnswer |-> draw.detectedAnswer,
             correctAnswer  |-> draw.correctAnswer,
             isCorrect      |-> IF isCorrect THEN "true" ELSE "false",
             status         |-> IF ~Truthy(draw.detectedAnswer) THEN "undetected"
                                ELSE IF isCorrect THEN "correct" ELSE "incorrect"]]

ListedIds == {evaluations[i].id : i \in 1..Len(evaluations)}

\* the answerComparison of the response that getAnswerComparison returned for
\* the evaluation, kept per evaluation id
RecordView(evaluationId, answerComparison) ==
    comparisonViews' =
        [id \in DOMAIN comparisonViews \cup {evaluationId} |->
            IF id = evaluationId THEN answerComparison ELSE comparisonViews[id]]

\* apiClient.getAnswerComparison(evaluationId) returns the mock data: in demo
\* mode, and when the fetch to the backend rejects
GetAnswerComparisonMock(evaluationId) ==
    /\ evaluationId \in ListedIds
    /\ \E draw \in MockDraws : RecordView(evaluationId, Some(MockComparison(draw)))
    /\ UNCHANGED <<isDemoMode, evaluations, appAnswerKeys, inflight>>
    /\ UNCHANGED <<widgetVars, engineVars, serverVars, uploadVars>>

\* apiClient.getAnswerComparison(evaluationId) returns the backend's answer; a
\* response that is not ok throws and nothing is shown
GetAnswerComparison(evaluationId) ==
    /\ evaluationId \in ListedIds
    /\ ~isDemoMode
    /\ LET response == EvaluationAnswersGet(evaluationId, kvStore)
       IN  /\ response.status = 200
           /\ RecordView(evaluationId, response.answerComparison)
    /\ UNCHANGED <<isDemoMode, evaluations, appAnswerKeys, inflight>>
    /\ UNCHANGED <<widgetVars, engineVars, serverVars, uploadVars>>

\* the stores the views are asked over: at most one answer key, uploaded at
\* clock 0, and two sheets processed at clocks 1 and 2, each with the key's id,
\* with no id, or with an id the store does not have
ViewStores ==
    LET keyed == AnswerKeysPost(CHOOSE k \in UploadableKeys : TRUE, << >>, 0, FALSE).kv
        body(n, keyId) == [studentName |-> StudentNames[n], rollNumber |-> RollNumbers[n],
                           examDate |-> ExamDate, imageData |-> ImageData,
                           answerKeyId |-> keyId]
        keyIds == {None, Some(AnswerKeyId(0)), Some(TempId(0))}
    IN  {ProcessOmr(body(2, k2), ProcessOmr(body(1, k1), store, 1, m1, FALSE).kv,
                    2, m2, FALSE).kv :
            store \in {<< >>, keyed}, k1 \in keyIds, k2 \in keyIds,
            m1 \in SimulatedMarks, m2 \in SimulatedMarks}

ViewsInit ==
    /\ EngineIdle
    /\ UploadIdle
    /\ WidgetsIdle
    /\ now = 2
    /\ lastResponse = << >>
    /\ isDemoMode \in BOOLEAN
    /\ kvStore \in (IF isDemoMode THEN {<< >>} ELSE ViewStores)
    /\ evaluations =
          (IF isDemoMode
           THEN << WithScores([id |-> DemoEvalId(2), studentName |-> StudentNames[1],
                               rollNumber |-> RollNumbers[1], status |-> "completed",
                               evaluation |-> Some(CHOOSE m \in MockOutcomes : TRUE)]) >>
           ELSE LET stored == kvGetByPrefix(kvStore, "evaluation_")
                IN  [i \in 1..Len(stored) |-> WithScores(stored[i])])
    /\ appAnswerKeys = (IF isDemoMode THEN << >>
                        ELSE kvGetByPrefix(kvStore, "answer_key_"))
    /\ inflight = {}
    /\ comparisonViews = << >>

ViewsNext ==
    \/ \E id \in ListedIds : GetAnswerComparisonMock(id)
    \/ \E id \in ListedIds : GetAnswerComparison(id)

SpecViews == ViewsInit /\ [][ViewsNext]_vars

-----------------------------------------------------------------------------
(* The edge function on its own: requests of any caller, two of which may   *)
(* be handled at the same reading of Date.now()                             *)

MaxServerClock == 1

\* bodies of POST /answer-keys: what AnswerKeyUpload sends for a CSV file of
\* two rows with Total Questions left at 100 and with Total Questions set to
\* 2, a body whose first answer is outside the options, and a body without
\* answers
PostedKeys ==
    {[examName |-> "Placement", setVersion |-> "A", totalQuestions |-> 100,
      answers |-> Some(1 :> "A" @@ 2 :> "B"), subjects |-> ClientSubjects],
     [examName |-> "Placement", setVersion |-> "A", totalQuestions |-> 2,
      answers |-> Some(1 :> "A" @@ 2 :> "B"), subjects |-> ClientSubjects],
     [examName |-> "Placement", setVersion |-> "B", totalQuestions |-> 2,
      answers |-> Some(1 :> "E" @@ 2 :> "B"), subjects |-> OtherSubjects],
     [examName |-> "Placement", setVersion |-> "A", totalQuestions |-> 2,
      answers |-> None, subjects |-> OtherSubjects],
     [examName |-> "", setVersion |-> "A", totalQuestions |-> 2,
      answers |-> Some(1 :> "A" @@ 2 :> "B"), subjects |-> ClientSubjects],
     [examName |-> "Placement", setVersion |-> "", totalQuestions |-> 2,
      answers |-> Some(1 :> "A" @@ 2 :> "B"), subjects |-> ClientSubjects]}

\* bodies of POST /process-omr: one student's sheet, with no answer key id or
\* with the id of the key uploaded at clock 0, complete or without its name,
\* roll number or image
PostedSheets ==
    {[studentName |-> name, rollNumber |-> roll,
      examDate |-> ExamDate, imageData |-> image, answerKeyId |-> keyId] :
        name \in {StudentNames[1], ""}, roll \in {RollNumbers[1], ""},
        image \in {ImageData, ""}, keyId \in {None, Some(AnswerKeyId(0))}}

ServerInit == EngineIdle /\ AppIdle /\ UploadIdle /\ WidgetsIdle /\ ServerIdle

\* Date.now() moves on between two requests
ServerTick ==
    /\ now < MaxServerClock
    /\ now' = now + 1
    /\ UNCHANGED <<kvStore, lastResponse>>
    /\ UNCHANGED <<widgetVars, engineVars, appVars, uploadVars>>

AnswerKeysRequest ==
    /\ \E body \in PostedKeys, kvFails \in BOOLEAN :
          LET done == AnswerKeysPost(body, kvStore, now, kvFails)
          IN  /\ kvStore' = done.kv
              /\ lastResponse' = done.response
    /\ UNCHANGED now
    /\ UNCHANGED <<widgetVars, engineVars, appVars, uploadVars>>

\* a plausible slip: the record is written before the fields are checked
ProcessOmrRequestSavesFirst ==
    /\ \E body \in PostedSheets, marks \in SimulatedMarks, kvFails \in BOOLEAN :
          LET done == ProcessOmr(body, kvStore, now, marks, kvFails)
          IN  /\ kvStore' = (IF done.response.status = 400
                             THEN kvSet(kvStore, EvaluationId(now),
                                        [id |-> EvaluationId(now),
                                         studentName |-> body.studentName,
                                         rollNumber |-> body.rollNumber,
                                         status |-> "failed"])
                             ELSE done.kv)
              /\ lastResponse' = done.response
    /\ UNCHANGED now
    /\ UNCHANGED <<widgetVars, engineVars, appVars, uploadVars>>

ProcessOmrRequest ==
    /\ \E body \in PostedSheets, marks \in SimulatedMarks, kvFails \in BOOLEAN :
          LET done == ProcessOmr(body, kvStore, now, marks, kvFails)
          IN  /\ kvStore' = done.kv
              /\ lastResponse' = done.response
    /\ UNCHANGED now
    /\ UNCHANGED <<widgetVars, engineVars, appVars, uploadVars>>

\* a plausible slip: the handler keeps the comparison it derived in the
\* evaluation's record
EvaluationAnswersCached(evaluationId, store) ==
    LET response == EvaluationAnswersGet(evaluationId, store)
    IN  [kv |-> IF response.status = 200
                THEN kvSet(store, evaluationId,
                           [k \in DOMAIN store[evaluationId] \cup {"answerComparison"} |->
                               IF k = "answerComparison" THEN response.answerComparison
                               ELSE store[evaluationId][k]])
                ELSE store,
         response |-> response]

\* the GET handler as the store it leaves and the response it sends: it makes
\* no kv.set
EvaluationAnswers(evaluationId, store) ==
    [kv |-> store, response |-> EvaluationAnswersGet(evaluationId, store)]

\* GET /evaluations/:id/answers for a stored id or for an id of no record
EvaluationAnswersRequest ==
    /\ \E evaluationId \in DOMAIN kvStore \cup {EvaluationId(MaxServerClock + 1)} :
          LET done == EvaluationAnswers(evaluationId, kvStore)
          IN  /\ kvStore' = done.kv
              /\ lastResponse' = done.response
    /\ UNCHANGED now
    /\ UNCHANGED <<widgetVars, engineVars, appVars, uploadVars>>

ServerNext ==
    \/ ServerTick
    \/ AnswerKeysRequest
    \/ ProcessOmrRequest
    \/ EvaluationAnswersRequest

SpecServer == ServerInit /\ [][ServerNext]_vars

-----------------------------------------------------------------------------
(* Properties of the scoring engine (SpecEngine) *)

Scored   == "score" \in engineCalls
Compared == "compare" \in engineCalls

RECURSIVE SumValues(_)
SumValues(f) ==
    IF DOMAIN f = {} THEN 0
    ELSE LET k == CHOOSE x \in DOMAIN f : TRUE
         IN  f[k] + SumValues([x \in DOMAIN f \ {k} |-> f[x]])

\* the questions of 1..n answered correctly: detected present and equal to
\* the key's answer
CorrectQuestions(detected, key, n) ==
    {q \in 1..n : Get(detected, q) \notin {Null, Undefined}
                    /\ Get(detected, q) = Get(key.answers, q)}

SubjectNames(subjects) == {subjects[i].name : i \in 1..Len(subjects)}

\* C1: the total score returned by calculateScores is the sum of the subject
\* scores it returns.
C1_TotalIsSumOfSubjects ==
    Scored => scoreResult.totalScore = SumValues(scoreResult.subjectScores)

\* C1 witness: a scored sheet with points in two different subjects.
C1_Witness ==
    /\ Scored
    /\ scoreResult.subjectScores["Data Analytics"] >= 1
    /\ scoreResult.subjectScores["SQL & Databases"] >= 1

\* C2: the total score is the number of questions of 1..totalQuestions whose
\* detected answer is present and equals the key's answer.
C2_TotalCountsKeyRange ==
    Scored => scoreResult.totalScore =
                  Cardinality(CorrectQuestions(detectedAnswers, answerKey,
                                               answerKey.totalQuestions))

\* C7: the keys of subjectScores are exactly the subject names the answer key
\* declares.
C7_SubjectKeysAreDeclared ==
    Scored => DOMAIN scoreResult.subjectScores = SubjectNames(answerKey.subjects)

\* C8: every comparison entry is undetected iff its detected answer is null or
\* absent, otherwise correct iff the detected answer equals the correct one,
\* otherwise incorrect; so the three counts add up to the number of entries.
C8_StatusPartition ==
    Compared =>
        /\ \A i \in 1..Len(comparison) :
              LET e == comparison[i]
              IN  /\ e.status \in {"correct", "incorrect", "undetected"}
                  /\ e.status = "undetected" <=> e.detectedAnswer \in {Null, Undefined}
                  /\ e.detectedAnswer \notin {Null, Undefined} =>
                        (e.status = "correct" <=> e.detectedAnswer = e.correctAnswer)
        /\ Cardinality({i \in 1..Len(comparison) : comparison[i].status = "correct"})
           + Cardinality({i \in 1..Len(comparison) : comparison[i].status = "incorrect"})
           + Cardinality({i \in 1..Len(comparison) : comparison[i].status = "undetected"})
           = Len(comparison)

\* C8 witness: detected {1: null, 2: B} against key {1: A, 2: B} compared:
\* question 1 undetected, question 2 correct.
C8_Witness ==
    /\ Compared
    /\ detectedAnswers = (1 :> Null @@ 2 :> "B")
    /\ answerKey.answers = (1 :> "A" @@ 2 :> "B")
    /\ comparison[1].status = "undetected"
    /\ comparison[2].status = "correct"

\* C9: the comparison has exactly totalQuestions entries, numbered 1, 2, ...
\* in order, each with the key's answer as correctAnswer.
C9_OneEntryPerKeyQuestion ==
    Compared =>
        /\ Len(comparison) = answerKey.totalQuestions
        /\ \A i \in 1..Len(comparison) :
              /\ comparison[i].questionNumber = i
              /\ comparison[i].correctAnswer = Get(answerKey.answers, i)

-----------------------------------------------------------------------------
(* Properties of the system (Spec) and of the comparison views (SpecViews) *)

StoredEvaluations ==
    {kvStore[id] : id \in {i \in DOMAIN kvStore : i.prefix = "evaluation_"}}

Listed == {evaluations[i] : i \in 1..Len(evaluations)}

\* C3: no stored evaluation is completed with a null result, and none has a
\* result without being completed.
C3_CompletedIffResult ==
    \A e \in StoredEvaluations : (e.status = "completed") <=> IsSome(e.evaluation)

\* the handleOMRUpload calls whose processOMR has thrown
FailedCalls == {c \in inflight : c.fn = "handleOMRUpload" /\ c.step = "fallback"}

\* C4: once the scoring of an evaluation has failed, its entry is not shown as
\* completed and carries no score afterwards.
C4_FailedNeverCompleted ==
    [][\A c \in FailedCalls : \A i \in 1..Len(evaluations') :
          evaluations'[i].id = c.tempId =>
              /\ evaluations'[i].status # "completed"
              /\ ~IsSome(evaluations'[i].totalScore)]_vars

\* C5: a listed evaluation of a submitted sheet carries a totalScore only if
\* its scoring produced a result, and then that result's totalScore.
C5_ScoreOnlyFromResult ==
    \A e \in Listed :
        (e.id.prefix # "demo-" /\ IsSome(e.totalScore)) =>
            /\ IsSome(e.evaluation)
            /\ e.totalScore[1] = e.evaluation[1].totalScore

\* the steps of pending -> processing -> (completed | error), or none
PrefixStep(old, new) ==
    \/ new = old
    \/ old = "pending" /\ new = "processing"
    \/ old = "processing" /\ new \in {"completed", "error"}

Files    == {uploadedFiles[i] : i \in 1..Len(uploadedFiles)}
FilesNew == {uploadedFiles'[i] : i \in 1..Len(uploadedFiles')}
ListedNew == {evaluations'[i] : i \in 1..Len(evaluations')}
StoredEvaluationsNew ==
    {kvStore'[id] : id \in {i \in DOMAIN kvStore' : i.prefix = "evaluation_"}}

\* every member of newSet starts at one of the statuses of starts, and moves
\* from its status in oldSet only as step allows
StatusMoves(oldSet, newSet, starts, step(_, _)) ==
    \A n \in newSet :
        LET before == {o \in oldSet : o.id = n.id}
        IN  IF before = {} THEN n.status \in starts
            ELSE \A o \in before : step(o.status, n.status)

\* the listed evaluations that handleOMRUpload made for a submitted sheet
Uploads(entries) == {e \in entries : e.id.prefix = ""}

C10_SameViewForSameEvaluation ==
    [][\A id \in DOMAIN comparisonViews :
          id \in DOMAIN comparisonViews' => comparisonViews'[id] = comparisonViews[id]]_vars

-----------------------------------------------------------------------------
(* Further properties of the scoring engine (SpecEngine) *)

\* the questions of 1..totalQuestions for which the key has no answer
MissingKeyEntries(key) == {q \in 1..key.totalQuestions : q \notin DOMAIN key.answers}

\* the questions the detected set declares outside 1..totalQuestions
OutOfRangeDetected(detected, key) == {q \in DOMAIN detected : q \notin 1..key.totalQuestions}

\* a call of calculateScores that returned a score
ReturnedScore == Scored /\ "totalScore" \in DOMAIN scoreResult

\* C13: calculateScores returns no score for a key with no answer for some
\* question of 1..totalQuestions.
C13_IncompleteKeyIsNotScored ==
    MissingKeyEntries(answerKey) # {} => ~ReturnedScore

\* C14: calculateScores returns no score when the detected answers declare a
\* question outside 1..totalQuestions.
C14_OutOfRangeDetectedIsNotScored ==
    OutOfRangeDetected(detectedAnswers, answerKey) # {} => ~ReturnedScore

\* the questions that a "first-last" range of a key's subjects names
DeclaredRange(questions) ==
    CASE questions = "1-2"    -> 1..2
      [] questions = "1-20"   -> 1..20
      [] questions = "21-40"  -> 21..40
      [] questions = "41-60"  -> 41..60
      [] questions = "61-80"  -> 61..80
      [] questions = "81-100" -> 81..100

\* the names of the key's subjects whose range contains question q
DeclaredSubjectsOf(key, q) ==
    {key.subjects[i].name : i \in {j \in 1..Len(key.subjects) :
                                     q \in DeclaredRange(key.subjects[j].questions)}}

\* C15: no comparison entry is returned for a question that no subject range
\* of the key contains, and an entry's subject is the one whose range
\* contains its question.
C15_SubjectComesFromARange ==
    Compared => \A i \in 1..Len(comparison) :
                   comparison[i].subject
                       \in DeclaredSubjectsOf(answerKey, comparison[i].questionNumber)

\* C20: isCorrect of every comparison entry is a boolean, true exactly when
\* the entry's status is correct.
C20_IsCorrectIsBoolean ==
    Compared => \A i \in 1..Len(comparison) :
                   /\ comparison[i].isCorrect \in {"true", "false"}
                   /\ (comparison[i].isCorrect = "true") <=> (comparison[i].status = "correct")

\* the comparison entries of subject s (of any subject, for s = "") that have
\* the status correct
CorrectEntries(s) ==
    {i \in 1..Len(comparison) :
        comparison[i].status = "correct" /\ (s = "" \/ comparison[i].subject = s)}

\* C16: for each subject, the comparison has as many correct entries of the
\* subject as the score gives the subject, and as many correct entries in all
\* as the total score.
C16_ComparisonAgreesWithScore ==
    Compared =>
        /\ \A s \in DOMAIN scoreResult.subjectScores :
               Cardinality(CorrectEntries(s)) = scoreResult.subjectScores[s]
        /\ Cardinality(CorrectEntries("")) = scoreResult.totalScore

\* C16 witness: questions 20 and 21, on the two sides of a range bound, are
\* both right and have been scored and compared.
C16_Witness ==
    /\ Compared
    /\ scoreResult.subjectScores["Data Analytics"] = 1
    /\ scoreResult.subjectScores["Machine Learning"] = 1
    /\ comparison[20].status = "correct" /\ comparison[21].status = "correct"

-----------------------------------------------------------------------------
(* Properties of the stores (Spec, SpecServer) *)

StoredAnswerKeys ==
    {kvStore[id] : id \in {i \in DOMAIN kvStore : i.prefix = "answer_key_"}}

AnswerAlphabet == {options[i] : i \in 1..Len(options)}

\* C11: every stored answer key has an answer for each question of
\* 1..totalQuestions and only answers of the alphabet.
C11_StoredKeysAreComplete ==
    \A key \in StoredAnswerKeys :
        /\ \A q \in 1..key.totalQuestions : q \in DOMAIN key.answers
        /\ \A q \in DOMAIN key.answers : key.answers[q] \in AnswerAlphabet

\* the subjects of the key whose range contains question q, by position
RangesContaining(key, q) ==
    {j \in 1..Len(key.subjects) : q \in DeclaredRange(key.subjects[j].questions)}

\* C12: the subject ranges of every stored answer key cover each question of
\* 1..totalQuestions exactly once and no question beyond totalQuestions.
C12_StoredKeysPartitionQuestions ==
    \A key \in StoredAnswerKeys :
        /\ \A q \in 1..key.totalQuestions : Cardinality(RangesContaining(key, q)) = 1
        /\ \A j \in 1..Len(key.subjects) :
               DeclaredRange(key.subjects[j].questions) \subseteq 1..key.totalQuestions

\* the records stored under an id of the prefix are left as they are
RecordsKept(prefix) ==
    \A id \in DOMAIN kvStore :
        id.prefix = prefix => id \in DOMAIN kvStore' /\ kvStore'[id] = kvStore[id]

\* C17: no step overwrites or changes a stored answer key.
C17_StoredKeysAreNeverOverwritten == [][RecordsKept("answer_key_")]_vars

\* C18: no step writes a stored evaluation record a second time with another
\* status, result or content.
C18_EvaluationsAreWrittenOnce == [][RecordsKept("evaluation_")]_vars

\* the comparison of a stored evaluation, derived from the store: compare
\* applied to its detected answers and to the key stored under its answerKeyId
DerivedComparison(store, evaluation) ==
    IF IsSome(evaluation.answerKeyId) /\ evaluation.answerKeyId[1] \in DOMAIN store
    THEN Some(generateAnswerComparison(evaluation.detectedAnswers,
                                       store[evaluation.answerKeyId[1]].answers,
                                       store[evaluation.answerKeyId[1]].subjects))
    ELSE None

\* a response of GET /evaluations/:id/answers that carries an evaluation
AnswersSent(response) ==
    /\ "answerComparison" \in DOMAIN response
    /\ response.status = 200
    /\ response.evaluation[1].id.prefix = "evaluation_"

\* C19: a step that answers with an evaluation's comparison leaves the store
\* as it was, no stored record holds a comparison, and the comparison sent
\* is the one derived from the stored evaluation and its stored key.
C19_ComparisonIsReadOnly ==
    [][AnswersSent(lastResponse') =>
          /\ kvStore' = kvStore
          /\ \A id \in DOMAIN kvStore' : "answerComparison" \notin DOMAIN kvStore'[id]
          /\ lastResponse'.evaluation[1] = kvStore[lastResponse'.evaluation[1].id]
          /\ lastResponse'.answerComparison
                 = DerivedComparison(kvStore, lastResponse'.evaluation[1])]_vars

\* C19 witness: the comparison of a stored, scored evaluation has been sent,
\* with a question found correct.
C19_Witness ==
    /\ AnswersSent(lastResponse)
    /\ IsSome(lastResponse.evaluation[1].evaluation)
    /\ IsSome(lastResponse.answerComparison)
    /\ \E i \in 1..Len(lastResponse.answerComparison[1]) :
          lastResponse.answerComparison[1][i].status = "correct"

-----------------------------------------------------------------------------
(* No negative marking (SpecEngine) *)

\* the number of questions of the range that gives subject s its points
RangeSize(s) ==
    LET range == CHOOSE r \in {subjectRanges[i] : i \in 1..Len(subjectRanges)} :
                     r.subject = s
    IN  range.end - range.start + 1

\* the detected answers with the answer of question q replaced by v
WithAnswer(detected, q, v) ==
    [n \in DOMAIN detected |-> IF n = q THEN v ELSE detected[n]]

\* what question q contributes to the score of subject s (to the total, for
\* s = ""): 1 when it is a question of the loop answered as the key answers it
Contribution(detected, key, q, s) ==
    IF /\ q \in CorrectQuestions(detected, key, LoopQuestions)
       /\ (s = "" \/ ComparisonSubject(q) = s)
    THEN 1 ELSE 0

\* C21: the total score lies in 0..totalQuestions, each subject's score in 0..
\* the size of the subject's range, and replacing one detected answer by null
\* or by a wrong value takes away at most that question's own point.
C21_NoNegativeMarking ==
    Scored =>
        /\ 0 <= scoreResult.totalScore
        /\ scoreResult.totalScore <= answerKey.totalQuestions
        /\ \A s \in DOMAIN scoreResult.subjectScores :
               /\ 0 <= scoreResult.subjectScores[s]
               /\ scoreResult.subjectScores[s] <= RangeSize(s)
        /\ \A q \in DOMAIN detectedAnswers : \A v \in {Null, "D"} :
               LET changed == calculateScores(WithAnswer(detectedAnswers, q, v),
                                              answerKey.answers)
               IN  /\ changed.totalScore
                          >= scoreResult.totalScore
                               - Contribution(detectedAnswers, answerKey, q, "")
                   /\ \A s \in DOMAIN scoreResult.subjectScores :
                          changed.subjectScores[s]
                              >= scoreResult.subjectScores[s]
                                   - Contribution(detectedAnswers, answerKey, q, s)

-----------------------------------------------------------------------------
(* The App's evaluation list (Spec) *)

\* the listed evaluations that came with a successful processOMR response:
\* completed, under the id the response gave them
Acknowledged(entries) ==
    {e \in entries : e.status = "completed"
                        /\ e.id.prefix \in {"evaluation_", "demo-eval-"}}

\* C22: an evaluation listed as completed after a successful processOMR
\* response is in the list after every later step.
C22_CompletedStaysListed ==
    [][\A e \in Acknowledged(Listed) : \E n \in ListedNew : n.id = e.id]_vars

\* the list entries of the sheet submitted for a file: the entries with the
\* student name typed in for the file
EntriesOf(file) ==
    {i \in 1..Len(evaluations) : evaluations[i].studentName = file.studentName}

\* C23: every sheet that FileUpload has handed to handleOMRUpload has exactly
\* one entry in the list, carrying its own student.
C23_OneEntryPerSubmission ==
    \A f \in Files : f.status = "completed" => Cardinality(EntriesOf(f)) = 1

-----------------------------------------------------------------------------
(* FileUpload (SpecTimersFire) *)

\* the calls of onUpload, the App's handleOMRUpload, that a step makes
NewUploads ==
    {c \in inflight' \ inflight : c.fn = "handleOMRUpload" /\ c.step = "processOMR"}

FileNew(id) ==
    uploadedFiles'[CHOOSE i \in 1..Len(uploadedFiles') : uploadedFiles'[i].id = id]

\* what a step may do to a file that is processing: the file stays, with the
\* name, roll number and date it has; it either stays processing, its
\* progress not lower and at most 90, with no call of onUpload for it, or
\* becomes completed with progress 100 and one call of onUpload with its name,
\* roll number and date
ProcessingStep(f) ==
    /\ \E n \in FilesNew : n.id = f.id
    /\ LET n     == FileNew(f.id)
           calls == {c \in NewUploads : c.file = f.id}
       IN  /\ n.studentName = f.studentName
           /\ n.rollNumber = f.rollNumber
           /\ n.examDate = f.examDate
           /\ \/ /\ n.status = "processing"
                 /\ n.progress >= f.progress /\ n.progress <= 90
                 /\ calls = {}
              \/ /\ n.status = "completed" /\ n.progress = 100
                 /\ Cardinality(calls) = 1
                 /\ \A c \in calls :
                        /\ c.omrData.studentName = f.studentName
                        /\ c.omrData.rollNumber = f.rollNumber
                        /\ c.omrData.examDate = f.examDate

\* the file of the id is processing, its timeout armed at a clock reading
\* that is not the last one of the model
Processing(id) ==
    /\ \E f \in Files : f.id = id /\ f.status = "processing"
    /\ \E timer \in uploadTimers : timer.id = id /\ timer.started < MaxClock

Completed(id) ==
    \E f \in Files : f.id = id /\ f.status = "completed" /\ f.progress = 100

\* C24: a file that is processing keeps its progress between its last value
\* and 90, is never removed, and onUpload is called for it once, when it
\* becomes completed with progress 100, with the name, roll number and date it
\* has had since processing started; no other file gets a call of onUpload;
\* and every file that is processing becomes completed with progress 100.
C24_ProcessingCompletesOnce ==
    /\ [][/\ \A f \in Files : f.status = "processing" => ProcessingStep(f)
          /\ \A c \in NewUploads :
                 \E f \in Files : f.id = c.file /\ f.status = "processing"]_vars
    /\ \A id \in 1..MaxFiles : Processing(id) ~> Completed(id)

\* C24 witness: a file has become completed with progress 100 after its
\* progress had reached the cap, and its sheet is with handleOMRUpload.
C24_Witness ==
    \E f \in Files :
        /\ f.status = "completed" /\ f.progress = 100
        /\ \E c \in inflight : c.fn = "handleOMRUpload" /\ c.file = f.id
                                   /\ c.omrData.studentName = f.studentName

-----------------------------------------------------------------------------
(* CameraCapture: Start Camera, Capture, Cancel, Retake, Confirm, the       *)
(* awaits of startCamera, and the unmount cleanup                           *)

MaxCameraCalls == 3

\* videoRef.current: the <video ref={videoRef}> is rendered only inside
\* {isStreaming && (...)}
videoRefAlwaysRendered == IF cameraMounted THEN "video" ELSE Null
videoRef == IF cameraMounted /\ isStreaming THEN "video" ELSE Null

\* a state setter: it does nothing once the component is unmounted
SetState(old, new) == IF cameraMounted THEN new ELSE old

\* the buttons the render shows, without a disabled one
RenderedButtons ==
    IF ~cameraMounted THEN {}
    ELSE (IF ~isStreaming /\ capturedImage = Null /\ hasPermission # "false"
           THEN {"Start Camera"} ELSE {})
         \cup (IF isStreaming THEN {"Capture", "Cancel"} ELSE {})
         \cup (IF capturedImage # Null THEN {"Confirm & Process", "Retake"} ELSE {})

\* startCamera up to its first await, navigator.permissions.query
startCamera ==
    /\ startCameraCalls' = startCameraCalls + 1
    /\ cameraCalls' = cameraCalls \cup
                          {[id |-> startCameraCalls + 1, step |-> "permissions"]}

\* streamRef.current.getTracks().forEach(track => track.stop())
StoppedTracks ==
    IF streamRef # NoStream THEN [mediaStreams EXCEPT ![streamRef] = "stopped"]
    ELSE mediaStreams

stopCamera ==
    /\ mediaStreams' = StoppedTracks
    /\ streamRef' = NoStream
    /\ isStreaming' = SetState(isStreaming, FALSE)
    /\ stopCameraRan' = TRUE

captureImage ==
    IF videoRef # Null
    THEN /\ capturedImage' = SetState(capturedImage, "image")
         /\ stopCamera
    ELSE UNCHANGED <<capturedImage, mediaStreams, streamRef, isStreaming,
                     stopCameraRan>>

retakePhoto ==
    /\ capturedImage' = SetState(capturedImage, Null)
    /\ startCamera

\* onCapture(captureData) hands the capture to the App's handleOMRUpload
confirmCapture(filled) ==
    capturedImage' = (IF capturedImage # Null /\ filled
                       THEN SetState(capturedImage, Null) ELSE capturedImage)

\* a click on one of the rendered buttons; filled: name and roll number typed
Click ==
    \E button \in RenderedButtons, filled \in BOOLEAN :
        /\ button \in {"Start Camera", "Retake"} => startCameraCalls < MaxCameraCalls
        /\ CASE button = "Start Camera" ->
                  /\ startCamera
                  /\ UNCHANGED <<capturedImage, mediaStreams, streamRef,
                                 isStreaming, stopCameraRan>>
             [] button = "Capture" ->
                  /\ captureImage
                  /\ UNCHANGED <<cameraCalls, startCameraCalls>>
             [] button = "Cancel" ->
                  /\ stopCamera
                  /\ UNCHANGED <<capturedImage, cameraCalls, startCameraCalls>>
             [] button = "Retake" ->
                  /\ retakePhoto
                  /\ UNCHANGED <<mediaStreams, streamRef, isStreaming,
                                 stopCameraRan>>
             [] OTHER ->
                  /\ confirmCapture(filled)
                  /\ UNCHANGED <<mediaStreams, streamRef, isStreaming,
                                 stopCameraRan, cameraCalls, startCameraCalls>>
        /\ UNCHANGED <<hasPermission, cameraMounted>>
        /\ UNCHANGED <<keyFileVars, engineVars, serverVars, appVars, uploadVars>>

\* checkCameraPermissions after its await: denied ends startCamera, anything
\* else goes on to navigator.mediaDevices.getUserMedia(constraints)
PermissionsSettle(call) ==
    /\ call \in cameraCalls
    /\ call.step = "permissions"
    /\ \E state \in {"granted", "denied", "threw"} :
          /\ hasPermission' =
                (CASE state = "granted" -> SetState(hasPermission, "true")
                   [] state = "denied"  -> SetState(hasPermission, "false")
                   [] OTHER             -> hasPermission)
          /\ cameraCalls' =
                (IF state = "denied" THEN cameraCalls \ {call}
                 ELSE (cameraCalls \ {call})
                          \cup {[call EXCEPT !.step = "getUserMedia"]})
    /\ UNCHANGED <<isStreaming, capturedImage, streamRef, cameraMounted,
                   startCameraCalls, mediaStreams, stopCameraRan>>
    /\ UNCHANGED <<keyFileVars, engineVars, serverVars, appVars, uploadVars>>

\* startCamera after await getUserMedia: the stream goes into streamRef, and
\* only with a video element is it played and isStreaming set
GetUserMediaSettle(call) ==
    /\ call \in cameraCalls
    /\ call.step = "getUserMedia"
    /\ cameraCalls' = cameraCalls \ {call}
    /\ \E outcome \in {"stream", "NotAllowedError", "NotFoundError"},
          played \in BOOLEAN :
          IF outcome = "stream"
          THEN /\ mediaStreams' = Append(mediaStreams, "live")
               /\ streamRef' = Len(mediaStreams) + 1
               /\ IF videoRef = Null
                  THEN UNCHANGED <<isStreaming, hasPermission>>
                  ELSE IF played
                       THEN /\ isStreaming' = SetState(isStreaming, TRUE)
                            /\ hasPermission' = SetState(hasPermission, "true")
                       ELSE /\ isStreaming' = SetState(isStreaming, FALSE)
                            /\ UNCHANGED hasPermission
          ELSE /\ isStreaming' = SetState(isStreaming, FALSE)
               /\ hasPermission' = (IF outcome = "NotAllowedError"
                                     THEN SetState(hasPermission, "false")
                                     ELSE hasPermission)
               /\ UNCHANGED <<mediaStreams, streamRef>>
    /\ UNCHANGED <<capturedImage, cameraMounted, startCameraCalls, stopCameraRan>>
    /\ UNCHANGED <<keyFileVars, engineVars, serverVars, appVars, uploadVars>>

\* useEffect(() => () => stopCamera()): the cleanup on unmount
Unmount ==
    /\ cameraMounted
    /\ cameraMounted' = FALSE
    /\ mediaStreams' = StoppedTracks
    /\ streamRef' = NoStream
    /\ stopCameraRan' = TRUE
    /\ UNCHANGED <<isStreaming, capturedImage, hasPermission, cameraCalls,
                   startCameraCalls>>
    /\ UNCHANGED <<keyFileVars, engineVars, serverVars, appVars, uploadVars>>

CameraInit == EngineIdle /\ ServerIdle /\ AppIdle /\ UploadIdle /\ WidgetsIdle

CameraNext ==
    \/ Click
    \/ \E call \in cameraCalls : PermissionsSettle(call)
    \/ \E call \in cameraCalls : GetUserMediaSettle(call)
    \/ Unmount

SpecCamera == CameraInit /\ [][CameraNext]_vars

\* isStreaming is never set: setIsStreaming(true) needs the video element,
\* which is rendered only once isStreaming is true
CameraNeverStreams == ~isStreaming /\ capturedImage = Null

C26_NoStreamLeaked ==
    (stopCameraRan /\ cameraCalls = {}) =>
        \A stream \in DOMAIN mediaStreams : mediaStreams[stream] = "stopped"

-----------------------------------------------------------------------------
(* Properties of the edge function's error answers (SpecServer) *)

SheetLacksField(body) ==
    body.studentName = "" \/ body.rollNumber = "" \/ body.imageData = ""

KeyLacksField(body) ==
    body.examName = "" \/ body.setVersion = "" \/ ~IsSome(body.answers)

Rejected(response) == "status" \in DOMAIN response /\ response.status = 400

\* C27: a process-omr request without studentName, rollNumber or imageData
\* and an answer-keys upload without examName, setVersion or answers are
\* answered 400 whatever the store holds, and a request answered 400 leaves
\* the key-value store as it was
C27_MissingFieldsAreRejected ==
    /\ [](\A kvFails \in BOOLEAN :
             /\ \A body \in PostedSheets, marks \in SimulatedMarks :
                    SheetLacksField(body) =>
                        LET done == ProcessOmr(body, kvStore, now, marks, kvFails)
                        IN  Rejected(done.response) /\ done.kv = kvStore
             /\ \A body \in PostedKeys :
                    KeyLacksField(body) =>
                        LET done == AnswerKeysPost(body, kvStore, now, kvFails)
                        IN  Rejected(done.response) /\ done.kv = kvStore)
    /\ [][Rejected(lastResponse') => kvStore' = kvStore]_vars

\* a request has been answered 400 over a store that holds an answer key and
\* an evaluation
C27_Witness ==
    /\ Rejected(lastResponse)
    /\ \E id \in DOMAIN kvStore : id.prefix = "answer_key_"
    /\ \E id \in DOMAIN kvStore : id.prefix = "evaluation_"

\* an id under which nothing is ever stored
UnknownIds == {EvaluationId(MaxServerClock + 1)}

StoredEvaluationIds == {id \in DOMAIN kvStore : id.prefix = "evaluation_"}

\* the evaluation names no answer key, or a key the store does not hold
KeyUnavailable(store, evaluation) ==
    \/ ~IsSome(evaluation.answerKeyId)
    \/ evaluation.answerKeyId[1] \notin DOMAIN store

\* C28: GET /evaluations/:id/answers answers 404 for an id the store does not
\* hold; for a stored evaluation without an answerKeyId, or whose answerKeyId
\* is not in the store, it answers success with the evaluation and a null
\* answerComparison; a comparison it does send is built from the key stored
\* under the evaluation's own answerKeyId
C28_MissingEvaluationOrKey ==
    /\ [](/\ \A id \in UnknownIds \ DOMAIN kvStore :
                 LET response == EvaluationAnswersGet(id, kvStore)
                 IN  response.status = 404 /\ ~response.success
          /\ \A id \in StoredEvaluationIds :
                 LET response == EvaluationAnswersGet(id, kvStore)
                 IN  /\ KeyUnavailable(kvStore, kvStore[id]) =>
                            /\ response.status = 200
                            /\ response.success
                            /\ response.evaluation = Some(kvStore[id])
                            /\ response.answerComparison = None
                     /\ IsSome(response.answerComparison) =>
                            response.answerComparison
                                = DerivedComparison(kvStore, kvStore[id]))
    /\ [][(/\ AnswersSent(lastResponse')
           /\ KeyUnavailable(kvStore, lastResponse'.evaluation[1]))
              => lastResponse'.answerComparison = None]_vars

\* the comparison of an evaluation whose answer key is not in the store has
\* been asked for and answered with null, while the store holds another key
C28_Witness ==
    /\ AnswersSent(lastResponse)
    /\ IsSome(lastResponse.evaluation[1].answerKeyId)
    /\ lastResponse.evaluation[1].answerKeyId[1] \notin DOMAIN kvStore
    /\ lastResponse.answerComparison = None
    /\ \E id \in DOMAIN kvStore : id.prefix = "answer_key_"

\* the answer 404 has been sent
C28_NotFoundSent == "status" \in DOMAIN lastResponse /\ lastResponse.status = 404

-----------------------------------------------------------------------------
(* AnswerKeyUpload: the CSV parser of parseExcelFile and confirmUpload.     *)
(* A string is the sequence of its characters; a line of the file is the    *)
(* sequence of its fields, as line.split(',') returns them.                 *)

MaxLines      == 2
MaxSelections == 2

\* white space as String.prototype.trim and parseInt skip it
Whitespace == {" ", "\t", "\r"}

RECURSIVE TrimStart(_)
TrimStart(str) ==
    IF str # << >> /\ Head(str) \in Whitespace THEN TrimStart(Tail(str)) ELSE str

RECURSIVE TrimEnd(_)
TrimEnd(str) ==
    IF str # << >> /\ str[Len(str)] \in Whitespace
    THEN TrimEnd(SubSeq(str, 1, Len(str) - 1)) ELSE str

Trim(str) == TrimEnd(TrimStart(str))

IsNotQuote(c) == c # "\""

\* s.trim().replace(/"/g, '')
Field(str) == SelectSeq(Trim(str), IsNotQuote)

Digits == <<"0", "1", "2", "3", "4", "5", "6", "7", "8", "9">>

IsDigit(c) == \E i \in DOMAIN Digits : Digits[i] = c

DigitValue(c) == (CHOOSE i \in DOMAIN Digits : Digits[i] = c) - 1

\* the value of the digits a string starts with
RECURSIVE ParseDigits(_, _)
ParseDigits(str, value) ==
    IF str # << >> /\ IsDigit(Head(str))
    THEN ParseDigits(Tail(str), 10 * value + DigitValue(Head(str)))
    ELSE value

\* parseInt(str): leading white space, a sign, then the digits up to the first
\* character that is none; None is NaN. (None of the files drawn has a 0x.)
parseInt(str) ==
    LET trimmed  == TrimStart(str)
        signed   == trimmed # << >> /\ Head(trimmed) \in {"-", "+"}
        unsigned == IF signed THEN Tail(trimmed) ELSE trimmed
    IN  IF unsigned = << >> \/ ~IsDigit(Head(unsigned)) THEN None
        ELSE IF signed /\ Head(trimmed) = "-"
             THEN Some(0 - ParseDigits(unsigned, 0))
             ELSE Some(ParseDigits(unsigned, 0))

LowerCase == <<"a", "b", "c", "d", "e", "f", "g", "h", "i", "j", "k", "l", "m",
               "n", "o", "p", "q", "r", "s", "t", "u", "v", "w", "x", "y", "z">>
UpperCase == <<"A", "B", "C", "D", "E", "F", "G", "H", "I", "J", "K", "L", "M",
               "N", "O", "P", "Q", "R", "S", "T", "U", "V", "W", "X", "Y", "Z">>

toUpperCase(str) ==
    [i \in DOMAIN str |->
        IF \E k \in DOMAIN LowerCase : LowerCase[k] = str[i]
        THEN UpperCase[CHOOSE k \in DOMAIN LowerCase : LowerCase[k] = str[i]]
        ELSE str[i]]

\* ['A', 'B', 'C', 'D'].includes(answer)
IsOption(answer) == \E i \in DOMAIN options : answer = <<options[i]>>

\* the for loop over the lines: answers[questionNum] = answer for a line that
\* passes the test; None when answerStr is undefined and toUpperCase throws
RECURSIVE ParseLines(_, _)
ParseLines(lines, answers) ==
    IF lines = << >> THEN Some(answers)
    ELSE LET line == Head(lines)
         IN  IF Len(line) < 2 THEN None
             ELSE LET questionNum == parseInt(Field(line[1]))
                      answer      == toUpperCase(Field(line[2]))
                  IN  ParseLines(Tail(lines),
                          IF IsSome(questionNum) /\ questionNum[1] > 0
                             /\ IsOption(answer)
                          THEN (questionNum[1] :> answer[1]) @@ answers
                          ELSE answers)

\* .filter(line => line.trim())
IsNotBlank(line) == ~(Len(line) = 1 /\ Trim(line[1]) = << >>)

\* parseExcelFile(file): what setParsedData is called with, None when it is
\* not called (an exception, or no answer kept)
parseExcelFile(file) ==
    LET parsed == ParseLines(SelectSeq(file.lines, IsNotBlank), << >>)
    IN  IF ~IsSome(parsed) \/ DOMAIN parsed[1] = {} THEN None
        ELSE Some([filename       |-> file.name,
                   totalQuestions |-> Cardinality(DOMAIN parsed[1]),
                   answers        |-> parsed[1],
                   subjects       |-> ClientSubjects])

\* lines of a file: 1,A  1,b  2,E  0,A  1.5,C  Question,Answer  3  a quoted
\* and padded line of a file with CRLF line ends, and an empty line
SampleLines ==
    { << <<"1">>, <<"A">> >>,
      << <<"1">>, <<"b">> >>,
      << <<"2">>, <<"E">> >>,
      << <<"0">>, <<"A">> >>,
      << <<"1", ".", "5">>, <<"C">> >>,
      << <<"Q">>, <<"A">> >>,
      << <<"3">> >>,
      << <<" ", "\"", "2", "\"", " ">>, <<" ", "\"", "d", "\"", "\r">> >>,
      << << >> >> }

LinesUpTo(n) == UNION {[1..k -> SampleLines] : k \in 0..n}

KeyFiles ==
    {[name |-> "key.csv", lines |-> lines] : lines \in LinesUpTo(MaxLines)}
    \cup {[name |-> "key.xlsx", lines |-> << << <<"1">>, <<"A">> >> >>]}

\* handleFileUpload: a .csv file is kept and parsed, any other is refused
HandleFileUpload ==
    /\ filesSelected < MaxSelections
    /\ filesSelected' = filesSelected + 1
    /\ \E file \in KeyFiles :
          IF file.name = "key.csv"
          THEN /\ keyFile' = Some(file)
               /\ parseCalls' = parseCalls \cup
                                    {[n |-> filesSelected + 1, file |-> file]}
          ELSE UNCHANGED <<keyFile, parseCalls>>
    /\ UNCHANGED <<parsedData, examName, onUploadCalls>>
    /\ UNCHANGED <<cameraVars, engineVars, serverVars, appVars, uploadVars>>

\* parseExcelFile after await file.text()
ParseSettle(call) ==
    /\ call \in parseCalls
    /\ parseCalls' = parseCalls \ {call}
    /\ parsedData' = (IF IsSome(parseExcelFile(call.file))
                       THEN parseExcelFile(call.file) ELSE parsedData)
    /\ UNCHANGED <<keyFile, examName, filesSelected, onUploadCalls>>
    /\ UNCHANGED <<cameraVars, engineVars, serverVars, appVars, uploadVars>>

\* the Exam Name input
SetExamName ==
    /\ examName' = (IF examName = "" THEN "Placement" ELSE "")
    /\ UNCHANGED <<keyFile, parsedData, parseCalls, filesSelected, onUploadCalls>>
    /\ UNCHANGED <<cameraVars, engineVars, serverVars, appVars, uploadVars>>

\* confirmUpload, from the button rendered with parsedData and enabled with an
\* exam name: onUpload(answerKey) and the form reset
ConfirmUpload ==
    /\ IsSome(parsedData)
    /\ examName # ""
    /\ onUploadCalls' = Append(onUploadCalls,
                               [examName       |-> examName,
                                setVersion     |-> "A",
                                totalQuestions |-> 100,
                                answers        |-> parsedData[1].answers,
                                subjects       |-> parsedData[1].subjects])
    /\ keyFile' = None
    /\ parsedData' = None
    /\ examName' = ""
    /\ UNCHANGED <<parseCalls, filesSelected>>
    /\ UNCHANGED <<cameraVars, engineVars, serverVars, appVars, uploadVars>>

KeyFileInit == EngineIdle /\ ServerIdle /\ AppIdle /\ UploadIdle /\ WidgetsIdle

KeyFileNext ==
    \/ HandleFileUpload
    \/ \E call \in parseCalls : ParseSettle(call)
    \/ SetExamName
    \/ ConfirmUpload

SpecKeyFile == KeyFileInit /\ [][KeyFileNext]_vars

-----------------------------------------------------------------------------
(* Properties of the answer-key parser (SpecKeyFile) *)

\* the field is written as a positive integer: digits only, not all zero
IsPositiveInteger(str) ==
    /\ str # << >>
    /\ \A i \in DOMAIN str : IsDigit(str[i])
    /\ ParseDigits(str, 0) > 0

\* a row the claim calls valid: a question number that is a positive integer
\* and an answer that upper-cased is A, B, C or D
ValidRow(line) ==
    /\ Len(line) >= 2
    /\ IsPositiveInteger(Field(line[1]))
    /\ IsOption(toUpperCase(Field(line[2])))

ValidRows(lines) == {i \in DOMAIN lines : ValidRow(lines[i])}

RowQuestion(line) == ParseDigits(Field(line[1]), 0)
RowAnswer(line)   == toUpperCase(Field(line[2]))[1]

\* the parse calls that a step completes
Settled == parseCalls \ parseCalls'

\* every entry of the parsed answers is a positive question number with an
\* answer among the options
EntriesAreValid(parsed) ==
    \A q \in DOMAIN parsed.answers :
        q \in Nat \ {0} /\ parsed.answers[q] \in {"A", "B", "C", "D"}

\* every entry comes from a valid row of the file, the last one for its
\* question, and every valid row's question has an entry
EntriesAreTheValidRows(parsed, lines) ==
    /\ \A q \in DOMAIN parsed.answers :
          \E i \in ValidRows(lines) : RowQuestion(lines[i]) = q
    /\ \A i \in ValidRows(lines) :
          /\ RowQuestion(lines[i]) \in DOMAIN parsed.answers
          /\ (\A j \in ValidRows(lines) :
                 RowQuestion(lines[j]) = RowQuestion(lines[i]) => j <= i)
                => parsed.answers[RowQuestion(lines[i])] = RowAnswer(lines[i])

\* C29: when a parse completes, a file without a valid row leaves no parsed
\* key (the Confirm button has nothing to upload), and the parsed key of a
\* file holds exactly the file's valid rows, a later valid row replacing an
\* earlier one for the same question
C29_ParserKeepsValidRowsOnly ==
    [][\A call \in Settled :
          /\ ValidRows(call.file.lines) = {} => parsedData' = None
          /\ IsSome(parseExcelFile(call.file)) =>
                /\ parsedData' = parseExcelFile(call.file)
                /\ EntriesAreValid(parsedData'[1])
                /\ EntriesAreTheValidRows(parsedData'[1], call.file.lines)]_vars

\* the parts of C29 apart
C29_EntriesAreValid ==
    [][\A call \in Settled :
          IsSome(parseExcelFile(call.file)) =>
              parsedData' = parseExcelFile(call.file)
              /\ EntriesAreValid(parsedData'[1])]_vars

C29_InvalidRowsContributeNothing ==
    [][\A call \in Settled :
          IsSome(parseExcelFile(call.file)) =>
              EntriesAreTheValidRows(parsedData'[1], call.file.lines)]_vars

\* only files whose question fields are digits, as parseInt reads them whole
WrittenAsIntegers(lines) ==
    \A i \in DOMAIN lines :
        LET str == Field(lines[i][1])
        IN  parseInt(str) = None \/ \A k \in DOMAIN str : IsDigit(str[k])

\* the selected file has been parsed and has no valid row
C29_NoKeyWithoutValidRow ==
    (/\ parseCalls = {}
     /\ IsSome(keyFile)
     /\ WrittenAsIntegers(keyFile[1].lines)
     /\ ValidRows(keyFile[1].lines) = {})
        => parsedData = None

C29_LaterRowReplaces ==
    [][\A call \in Settled :
          (WrittenAsIntegers(call.file.lines)
           /\ IsSome(parseExcelFile(call.file)))
              => EntriesAreTheValidRows(parsedData'[1], call.file.lines)]_vars

====
